---- MODULE Spec2Model ----
(***************************************************************************)
(* Model of the SporeNet model converter (scripts/convert.py) and of the   *)
(* model embedding step of the firmware generator                          *)
(* (scripts/generate_firmware.py).                                         *)
(*                                                                         *)
(* Spec      one run of convert.py main(): argument parsing, dependency    *)
(*           setup, dispatch, the three converters, the success report and *)
(*           the optional C header.                                        *)
(* SpecEmit  the two byte-array emitters applied to a model file.          *)
(***************************************************************************)
EXTENDS Integers, Sequences, FiniteSets, TLC

VARIABLES
  args,            \* parsed command line and what the model file holds
  env,             \* which python packages can be imported
  pc,              \* position of the run
  tf, torch, onnx, \* the module globals set by setup_imports
  model,           \* the loaded TensorFlow model
  converter,       \* the TFLiteConverter object and its settings
  attempts,        \* every converter.convert() call: settings in force, outcome
  tflite_model,    \* the binary returned by converter.convert()
  details,         \* what the interpreter read back from the binary
  fs,              \* the files and directories the run touches
  caller,          \* who called convert_onnx_model
  calls,           \* the converters invoked so far, in order
  success_printed, \* "Model converted successfully" has been printed
  exit_code,       \* -1 while running, else the process exit code
  error            \* where the failure came from, "None" if none

vars == <<args, env, pc, tf, torch, onnx, model, converter, attempts,
          tflite_model, details, fs, caller, calls, success_printed,
          exit_code, error>>

----------------------------------------------------------------------------
(* Bounds and program constants *)

\* Longest model file the emitters are applied to in SpecEmit.
MaxLen == 17

\* Hex literals per line of the emitted array.
BytesPerLine == 16

\* Samples yielded by the representative dataset.
SampleCount == 100

----------------------------------------------------------------------------
(* Values *)

Choices == {"tensorflow", "pytorch", "onnx"}

\* model.input_shape as the converter sees it: a concrete shape, nothing
\* usable (no attribute, None or empty), or an access that raises.
InputShapes ==
  { [status |-> "ok", dims |-> <<1, 28, 28, 1>>],
    [status |-> "ok", dims |-> <<1, 4>>],
    [status |-> "none", dims |-> <<>>],
    [status |-> "raises", dims |-> <<>>] }

\* Binaries the toolchain may return.
BinSet == { <<28, 0, 255>>, <<9>> }

Paths == {"out", "onnx", "tf_model", "header", "model_cpp"}

Absent == [kind |-> "absent", bytes |-> <<>>, text |-> <<>>]
Dir == [kind |-> "dir", bytes |-> <<>>, text |-> <<>>]
BinFile(b) == [kind |-> "bin", bytes |-> b, text |-> <<>>]
OnnxFile == [kind |-> "onnx", bytes |-> <<>>, text |-> <<>>]
TextFile(t) == [kind |-> "text", bytes |-> <<>>, text |-> t]

\* output_path.replace('.tflite', X): a new path when the output path holds
\* '.tflite', the output path itself when it does not.
OnnxPath == IF args.output_has_tflite THEN "onnx" ELSE "out"
TfModelPath == IF args.output_has_tflite THEN "tf_model" ELSE "out"
HeaderPath == IF args.output_has_tflite THEN "header" ELSE "out"

NoModel == [loaded |-> FALSE, input_shape |-> [status |-> "none", dims |-> <<>>]]

NoDataset == [shape |-> <<>>, count |-> 0]

\* A TFLiteConverter as its constructor leaves it.
NewConverter(src) ==
  [source |-> src,
   optimizations |-> {},
   representative_dataset |-> NoDataset,
   supported_ops |-> {"TFLITE_BUILTINS"},
   inference_input_type |-> "float32",
   inference_output_type |-> "float32"]

NoConverter == NewConverter("none")

NoBinary == [bytes |-> <<>>, input_type |-> "none", output_type |-> "none",
             valid |-> FALSE]

NoDetails == [loaded |-> FALSE, input_type |-> "none", output_type |-> "none"]

\* What converter.convert() returns under the settings c: the declared
\* element types of the binary follow the inference types of the converter.
ToolchainBinary(c, b, v) ==
  [bytes |-> b, input_type |-> c.inference_input_type,
   output_type |-> c.inference_output_type, valid |-> v]

----------------------------------------------------------------------------
(* Byte-array emission *)

HexDigits == <<"0", "1", "2", "3", "4", "5", "6", "7", "8", "9",
               "a", "b", "c", "d", "e", "f">>

DecDigits == <<"0", "1", "2", "3", "4", "5", "6", "7", "8", "9">>

RECURSIVE FormatHex(_)
\* format(n, 'x')
FormatHex(n) ==
  IF n < 16 THEN <<HexDigits[n + 1]>>
  ELSE FormatHex(n \div 16) \o <<HexDigits[(n % 16) + 1]>>

RECURSIVE FormatDec(_)
\* str(n)
FormatDec(n) ==
  IF n < 10 THEN <<DecDigits[n + 1]>>
  ELSE FormatDec(n \div 10) \o <<DecDigits[(n % 10) + 1]>>

RECURSIVE ZeroPad(_, _)
\* the '0w' part of a format spec
ZeroPad(s, w) == IF Len(s) >= w THEN s ELSE ZeroPad(<<"0">> \o s, w)

\* f"0x{byte:02d}," : decimal digits behind a hex prefix
HexLiteralDecimal(byte) == <<"0", "x">> \o ZeroPad(FormatDec(byte), 2) \o <<",">>

\* f"0x{byte:02x},"
HexLiteral(byte) == <<"0", "x">> \o ZeroPad(FormatHex(byte), 2) \o <<",">>

RECURSIVE HexArray(_, _, _)
\* for i, byte in enumerate(model_data): ... (i is 0-based, data 1-based)
HexArray(data, i, indent) ==
  IF i >= Len(data) THEN <<>>
  ELSE (IF i % BytesPerLine = 0 THEN <<"\n">> \o indent ELSE <<>>)
       \o HexLiteral(data[i + 1])
       \o HexArray(data, i + 1, indent)

\* The text generate_model_header writes for model_data.  Fixed template
\* lines are single tokens, generated parts are one token per character.
HeaderText(model_data) ==
  <<"// Auto-generated model header for SporeNet\n// Model size: ">>
  \o FormatDec(Len(model_data))
  \o <<" bytes\n\n#ifndef SPORENET_MODEL_H\n#define SPORENET_MODEL_H\n\n#include <stdint.h>\n\n// Model data\nextern const unsigned char sporenet_model_data[];\nextern const int sporenet_model_data_len;\n\n",
       "const unsigned char sporenet_model_data[] = {", "\n">>
  \o HexArray(model_data, 0, <<" ", " ">>)
  \o <<"\n", "}", ";", "\n\n", "const int sporenet_model_data_len = ">>
  \o FormatDec(Len(model_data))
  \o <<";", "\n\n#endif // SPORENET_MODEL_H\n">>

\* The text integrate_model writes for model_data.
ModelCppText(model_data) ==
  <<"#include \"model_data.h\"\n\n// SporeNet model data - auto-generated\n// Model size: ">>
  \o FormatDec(Len(model_data))
  \o <<" bytes\n\n", "const unsigned char sporenet_model_data[] = {", "\n">>
  \o HexArray(model_data, 0, <<" ", " ", " ", " ">>)
  \o <<"\n", "}", ";", "\n\n", "const int sporenet_model_data_len = ">>
  \o FormatDec(Len(model_data))
  \o <<";", "\n">>

\* generate_model_header(tflite_path, header_path) on the file system f
generate_model_header(f, tflite_path, header_path) ==
  [f EXCEPT ![header_path] = TextFile(HeaderText(f[tflite_path].bytes))]

\* integrate_model(firmware_dir, model_path) on the file system f
integrate_model(f, model_path) ==
  [f EXCEPT !["model_cpp"] = TextFile(ModelCppText(f[model_path].bytes))]

----------------------------------------------------------------------------
(* One run of convert.py *)

Requests ==
  [framework : Choices \cup {"caffe"},
   model_exists : BOOLEAN,
   model_kind : {"h5", "saved_model", "other"},
   input_shape : InputShapes,
   output_has_tflite : BOOLEAN,
   quantize : BOOLEAN,
   generate_header : BOOLEAN]

Environments == [tensorflow : BOOLEAN, torch : BOOLEAN, onnx : BOOLEAN]

IdleState ==
  /\ tf = "unset" /\ torch = "unset" /\ onnx = "unset"
  /\ model = NoModel
  /\ converter = NoConverter
  /\ attempts = <<>>
  /\ tflite_model = NoBinary
  /\ details = NoDetails
  /\ caller = "main"
  /\ calls = <<>>
  /\ success_printed = FALSE
  /\ exit_code = -1
  /\ error = "None"

Init ==
  /\ args \in Requests
  /\ env \in Environments
  /\ pc = "parse_args"
  /\ fs = [p \in Paths |-> Absent]
  /\ IdleState

inputs == <<args, env>>
globals == <<tf, torch, onnx>>
conv == <<model, converter, attempts, tflite_model, details>>
trace == <<caller, calls, success_printed>>

\* sys.exit(code)
Exit(code, tag) ==
  /\ pc' = "done"
  /\ exit_code' = code
  /\ error' = tag

\* An exception leaves the converters and reaches the handler of main, which
\* prints it and exits with 1.  No frame on the way has a finally block.
Raise(tag) == Exit(1, tag)

Goto(label) ==
  /\ pc' = label
  /\ UNCHANGED <<exit_code, error>>

\* parser.parse_args(): --framework is restricted to Choices.
ParseArgs ==
  /\ pc = "parse_args"
  /\ IF args.framework \in Choices
       THEN Goto("setup_imports")
       ELSE Exit(2, "UnsupportedFormat")
  /\ UNCHANGED <<inputs, globals, conv, fs, trace>>

setup_imports ==
  /\ pc = "setup_imports"
  /\ IF env.tensorflow
       THEN /\ tf' = "module"
            /\ torch' = IF env.torch THEN "module" ELSE "None"
            /\ onnx' = IF env.onnx THEN "module" ELSE "None"
            /\ Goto("check_input")
       ELSE /\ Exit(1, "TensorFlowMissing")
            /\ UNCHANGED globals
  /\ UNCHANGED <<inputs, conv, fs, trace>>

\* if not os.path.exists(args.model): sys.exit(1)
CheckInputSkipped ==
  /\ pc = "check_input"
  /\ Goto("dispatch")
  /\ UNCHANGED <<inputs, globals, conv, fs, trace>>

CheckInput ==
  /\ pc = "check_input"
  /\ IF args.model_exists
       THEN Goto("dispatch")
       ELSE Exit(1, "InputNotFound")
  /\ UNCHANGED <<inputs, globals, conv, fs, trace>>

Dispatch ==
  /\ pc = "dispatch"
  /\ Goto(CASE args.framework = "tensorflow" -> "tf_load"
            [] args.framework = "pytorch" -> "pt_check"
            [] args.framework = "onnx" -> "onnx_check")
  /\ caller' = "main"
  /\ calls' = Append(calls, CASE args.framework = "tensorflow" -> "convert_tensorflow_model"
                              [] args.framework = "pytorch" -> "convert_pytorch_model"
                              [] args.framework = "onnx" -> "convert_onnx_model")
  /\ UNCHANGED <<inputs, globals, conv, fs, success_printed>>

----------------------------------------------------------------------------
(* convert_tensorflow_model *)

TFLoad ==
  /\ pc = "tf_load"
  /\ \E ok \in BOOLEAN :
       IF args.model_kind = "other" \/ ~ok
         THEN /\ Raise(IF args.model_kind = "other" THEN "ValueError" ELSE "LoadError")
              /\ UNCHANGED <<model, converter>>
         ELSE /\ model' = [loaded |-> TRUE, input_shape |-> args.input_shape]
              /\ converter' = NewConverter(IF args.model_kind = "h5"
                                             THEN "keras_model"
                                             ELSE "concrete_functions")
              /\ Goto("tf_configure")
  /\ UNCHANGED <<inputs, globals, attempts, tflite_model, details, fs, trace>>

\* The settings of lines 78-81.
IntegerQuantization(c, input_shape) ==
  [c EXCEPT !.representative_dataset =
                [shape |-> Tail(input_shape), count |-> SampleCount],
            !.supported_ops = {"TFLITE_BUILTINS_INT8"},
            !.inference_input_type = "int8",
            !.inference_output_type = "int8"]

\* The integer settings attempted without the try/except of lines 67-84: an
\* input_shape whose access raises ends the request.
TFConfigureNoTry ==
  /\ pc = "tf_configure"
  /\ IF args.quantize /\ model.input_shape.status = "raises"
       THEN /\ converter' = [converter EXCEPT !.optimizations = {"DEFAULT"}]
            /\ Raise("ConfigureError")
       ELSE /\ converter' =
                 IF args.quantize
                   THEN LET c == [converter EXCEPT !.optimizations = {"DEFAULT"}]
                        IN  IF model.input_shape.status = "ok"
                              THEN IntegerQuantization(c, model.input_shape.dims)
                              ELSE c
                   ELSE converter
            /\ Goto("tf_convert")
  /\ UNCHANGED <<inputs, globals, model, attempts, tflite_model, details, fs, trace>>

\* "if quantize:" taken whatever the flag says
TFConfigureAlways ==
  /\ pc = "tf_configure"
  /\ converter' =
       LET c == [converter EXCEPT !.optimizations = {"DEFAULT"}]
       IN  IF model.input_shape.status = "ok"
             THEN IntegerQuantization(c, model.input_shape.dims)
             ELSE c
  /\ Goto("tf_convert")
  /\ UNCHANGED <<inputs, globals, model, attempts, tflite_model, details, fs, trace>>

\* Lines 61-84.  An input_shape that is missing, None or empty skips the
\* integer settings; one whose access raises is caught by the except.
TFConfigure ==
  /\ pc = "tf_configure"
  /\ converter' =
       IF args.quantize
         THEN LET c == [converter EXCEPT !.optimizations = {"DEFAULT"}]
              IN  IF model.input_shape.status = "ok"
                    THEN IntegerQuantization(c, model.input_shape.dims)
                    ELSE c
         ELSE converter
  /\ Goto("tf_convert")
  /\ UNCHANGED <<inputs, globals, model, attempts, tflite_model, details, fs, trace>>

\* Lines 87-91: the first converter.convert().
TFConvert ==
  /\ pc = "tf_convert"
  /\ \E ok \in BOOLEAN, b \in BinSet, v \in BOOLEAN :
       /\ attempts' = Append(attempts, [settings |-> converter, ok |-> ok])
       /\ IF ok
            THEN /\ tflite_model' = ToolchainBinary(converter, b, v)
                 /\ Goto("tf_save")
            ELSE /\ UNCHANGED tflite_model
                 /\ Goto("tf_retry")
  /\ UNCHANGED <<inputs, globals, model, converter, details, fs, trace>>

\* Lines 92-96: the except branch, converter.optimizations = [] and the
\* second converter.convert(), whose exception is not caught.
TFRetry ==
  /\ pc = "tf_retry"
  /\ converter' = [converter EXCEPT !.optimizations = {}]
  /\ \E ok \in BOOLEAN, b \in BinSet, v \in BOOLEAN :
       /\ attempts' = Append(attempts, [settings |-> converter', ok |-> ok])
       /\ IF ok
            THEN /\ tflite_model' = ToolchainBinary(converter', b, v)
                 /\ Goto("tf_save")
            ELSE /\ UNCHANGED tflite_model
                 /\ Raise("ConvertError")
  /\ UNCHANGED <<inputs, globals, model, details, fs, trace>>

\* with open(output_path, 'wb') as f: f.write(tflite_model)
\* open() truncates before the write, so a failure leaves the path as it was
\* or holding an empty file.
WriteOutput(next, ok, truncated) ==
  IF ok /\ fs["out"].kind # "dir"
    THEN /\ fs' = [fs EXCEPT !["out"] = BinFile(tflite_model.bytes)]
         /\ Goto(next)
    ELSE /\ fs' = IF truncated /\ fs["out"].kind # "dir"
                    THEN [fs EXCEPT !["out"] = BinFile(<<>>)]
                    ELSE fs
         /\ Raise("WriteError")

TFSave ==
  /\ pc = "tf_save"
  /\ \E ok \in BOOLEAN, truncated \in BOOLEAN : WriteOutput("tf_inspect", ok, truncated)
  /\ UNCHANGED <<inputs, globals, conv, trace>>

\* Lines 103-114: the interpreter loads the binary, allocates its tensors and
\* the first input and output details are read.
TFInspect ==
  /\ pc = "tf_inspect"
  /\ IF tflite_model.valid
       THEN /\ details' = [loaded |-> TRUE,
                           input_type |-> tflite_model.input_type,
                           output_type |-> tflite_model.output_type]
            /\ Goto("report_success")
       ELSE /\ UNCHANGED details
            /\ Raise("InspectError")
  /\ UNCHANGED <<inputs, globals, model, converter, attempts, tflite_model, fs, trace>>

----------------------------------------------------------------------------
(* convert_pytorch_model *)

\* if torch is None: raise ImportError
PTCheck ==
  /\ pc = "pt_check"
  /\ IF torch = "None" THEN Raise("ImportError") ELSE Goto("pt_load")
  /\ UNCHANGED <<inputs, globals, conv, fs, trace>>

\* torch.load(model_path); model.eval()
PTLoad ==
  /\ pc = "pt_load"
  /\ \E ok \in BOOLEAN : IF ok THEN Goto("pt_export") ELSE Raise("LoadError")
  /\ UNCHANGED <<inputs, globals, conv, fs, trace>>

\* Lines 128-147: torch.onnx.export writes the intermediate file, then
\* convert_onnx_model(onnx_path, output_path, quantize) is called.  A failed
\* export may leave a partial file behind.
PTExport ==
  /\ pc = "pt_export"
  /\ \E ok \in BOOLEAN, partial \in BOOLEAN :
       IF ok
         THEN /\ fs' = [fs EXCEPT ![OnnxPath] = OnnxFile]
              /\ caller' = "pytorch"
              /\ calls' = Append(calls, "convert_onnx_model")
              /\ Goto("onnx_check")
         ELSE /\ fs' = IF partial THEN [fs EXCEPT ![OnnxPath] = OnnxFile] ELSE fs
              /\ UNCHANGED <<caller, calls>>
              /\ Raise("ExportError")
  /\ UNCHANGED <<inputs, globals, conv, success_printed>>

\* os.remove(onnx_path), reached only when convert_onnx_model returned
PTCleanup ==
  /\ pc = "pt_cleanup"
  /\ fs' = [fs EXCEPT ![OnnxPath] = Absent]
  /\ Goto("report_success")
  /\ UNCHANGED <<inputs, globals, conv, trace>>

----------------------------------------------------------------------------
(* convert_onnx_model *)

\* if onnx is None: raise ImportError
OnnxCheck ==
  /\ pc = "onnx_check"
  /\ IF onnx = "None" THEN Raise("ImportError") ELSE Goto("onnx_translate")
  /\ UNCHANGED <<inputs, globals, conv, fs, trace>>

\* Lines 161-168: onnx2tf.convert writes a SavedModel directory at
\* tf_model_path.  It cannot create the directory where a file already is;
\* a failed translation may leave the directory behind.
OnnxTranslate ==
  /\ pc = "onnx_translate"
  /\ \E ok \in BOOLEAN, partial \in BOOLEAN :
       IF fs[TfModelPath].kind \notin {"absent", "dir"}
         THEN /\ UNCHANGED fs
              /\ Raise("TranslateError")
         ELSE IF ok
           THEN /\ fs' = [fs EXCEPT ![TfModelPath] = Dir]
                /\ Goto("onnx_configure")
           ELSE /\ fs' = IF partial THEN [fs EXCEPT ![TfModelPath] = Dir] ELSE fs
                /\ Raise("TranslateError")
  /\ UNCHANGED <<inputs, globals, conv, trace>>

\* Lines 171-174: from_saved_model, then only the default optimization.
OnnxConfigure ==
  /\ pc = "onnx_configure"
  /\ \E ok \in BOOLEAN :
       IF ok
         THEN /\ converter' =
                   IF args.quantize
                     THEN [NewConverter("saved_model") EXCEPT !.optimizations = {"DEFAULT"}]
                     ELSE NewConverter("saved_model")
              /\ Goto("onnx_convert")
         ELSE /\ UNCHANGED converter
              /\ Raise("LoadError")
  /\ UNCHANGED <<inputs, globals, model, attempts, tflite_model, details, fs, trace>>

\* Line 176: the only converter.convert() of this converter; its exception
\* is printed by the handler of line 185 and raised again.
OnnxConvert ==
  /\ pc = "onnx_convert"
  /\ \E ok \in BOOLEAN, b \in BinSet, v \in BOOLEAN :
       /\ attempts' = Append(attempts, [settings |-> converter, ok |-> ok])
       /\ IF ok
            THEN /\ tflite_model' = ToolchainBinary(converter, b, v)
                 /\ Goto("onnx_write")
            ELSE /\ UNCHANGED tflite_model
                 /\ Raise("ConvertError")
  /\ UNCHANGED <<inputs, globals, model, converter, details, fs, trace>>

\* Lines 178-179
OnnxWrite ==
  /\ pc = "onnx_write"
  /\ \E ok \in BOOLEAN, truncated \in BOOLEAN : WriteOutput("onnx_cleanup", ok, truncated)
  /\ UNCHANGED <<inputs, globals, conv, trace>>

\* Lines 182-183: shutil.rmtree(tf_model_path), then return to the caller.
OnnxCleanup ==
  /\ pc = "onnx_cleanup"
  /\ fs' = [fs EXCEPT ![TfModelPath] = Absent]
  /\ Goto(IF caller = "pytorch" THEN "pt_cleanup" ELSE "report_success")
  /\ UNCHANGED <<inputs, globals, conv, trace>>

----------------------------------------------------------------------------
(* main, after the converter returned *)

\* Line 275, and lines 283-286 when no header is asked for.
ReportSuccess ==
  /\ pc = "report_success"
  /\ success_printed' = TRUE
  /\ IF args.generate_header THEN Goto("gen_header") ELSE Exit(0, "None")
  /\ UNCHANGED <<inputs, globals, conv, fs, caller, calls>>

\* Lines 278-286.  A failed write of the header raises into the handler of
\* main; open() may have truncated the header path by then.
GenerateHeader ==
  /\ pc = "gen_header"
  /\ \E ok \in BOOLEAN, truncated \in BOOLEAN :
       IF ok
         THEN /\ fs' = generate_model_header(fs, "out", HeaderPath)
              /\ Exit(0, "None")
         ELSE /\ fs' = IF truncated THEN [fs EXCEPT ![HeaderPath] = TextFile(<<>>)] ELSE fs
              /\ Raise("HeaderError")
  /\ UNCHANGED <<inputs, globals, conv, trace>>

Next ==
  \/ ParseArgs
  \/ setup_imports
  \/ CheckInput
  \/ Dispatch
  \/ TFLoad
  \/ TFConfigure
  \/ TFConvert
  \/ TFRetry
  \/ TFSave
  \/ TFInspect
  \/ PTCheck
  \/ PTLoad
  \/ PTExport
  \/ PTCleanup
  \/ OnnxCheck
  \/ OnnxTranslate
  \/ OnnxConfigure
  \/ OnnxConvert
  \/ OnnxWrite
  \/ OnnxCleanup
  \/ ReportSuccess
  \/ GenerateHeader

Spec == Init /\ [][Next]_vars

----------------------------------------------------------------------------
(* The emitters applied to a model file *)

\* Byte values the model files are built from.
ByteSeeds == {0, 9, 10, 15, 16, 160, 255}

ByteStrides == {0, 1, 17, 101}

\* Model files: every length up to MaxLen, bytes running from a seed.
EmitInputs ==
  { [i \in 1..n |-> (s + (i - 1) * d) % 256] :
      n \in 0..MaxLen, s \in ByteSeeds, d \in ByteStrides }

InitEmit ==
  /\ args = [framework |-> "tensorflow", model_exists |-> TRUE,
             model_kind |-> "h5",
             input_shape |-> [status |-> "none", dims |-> <<>>],
             output_has_tflite |-> TRUE, quantize |-> TRUE,
             generate_header |-> TRUE]
  /\ env = [tensorflow |-> TRUE, torch |-> TRUE, onnx |-> TRUE]
  /\ pc = "emit"
  /\ \E data \in EmitInputs :
       fs = [p \in Paths |-> IF p = "out" THEN BinFile(data) ELSE Absent]
  /\ IdleState

\* convert.py: generate_model_header(args.output, header_path)
EmitHeader ==
  /\ pc = "emit"
  /\ fs[HeaderPath].kind = "absent"
  /\ fs' = generate_model_header(fs, "out", HeaderPath)
  /\ UNCHANGED <<inputs, globals, conv, trace, pc, exit_code, error>>

\* generate_firmware.py: if os.path.exists(model_path): integrate_model(...)
EmitModelCpp ==
  /\ pc = "emit"
  /\ fs["out"].kind = "bin"
  /\ fs["model_cpp"].kind = "absent"
  /\ fs' = integrate_model(fs, "out")
  /\ UNCHANGED <<inputs, globals, conv, trace, pc, exit_code, error>>

NextEmit ==
  \/ EmitHeader
  \/ EmitModelCpp

SpecEmit == InitEmit /\ [][NextEmit]_vars

----------------------------------------------------------------------------
(* Reading an emitted text back *)

IsHexDigit(t) == \E k \in 1..16 : HexDigits[k] = t

HexValue(t) == (CHOOSE k \in 1..16 : HexDigits[k] = t) - 1

IsDecDigit(t) == \E k \in 1..10 : DecDigits[k] = t

DecValue(t) == (CHOOSE k \in 1..10 : DecDigits[k] = t) - 1

RECURSIVE ReadHex(_, _, _)
\* The value and end of the longest run of hex digits starting at text[i].
ReadHex(text, i, acc) ==
  IF i <= Len(text) /\ IsHexDigit(text[i])
    THEN ReadHex(text, i + 1, acc * 16 + HexValue(text[i]))
    ELSE [value |-> acc, next |-> i]

RECURSIVE ReadDec(_, _, _)
ReadDec(text, i, acc) ==
  IF i <= Len(text) /\ IsDecDigit(text[i])
    THEN ReadDec(text, i + 1, acc * 10 + DecValue(text[i]))
    ELSE [value |-> acc, next |-> i]

RECURSIVE ParseHexLiterals(_, _)
\* The values of the 0x literals of text from position i on, in order.
ParseHexLiterals(text, i) ==
  IF i > Len(text) THEN <<>>
  ELSE IF i + 2 <= Len(text) /\ text[i] = "0" /\ text[i + 1] = "x"
            /\ IsHexDigit(text[i + 2])
    THEN LET r == ReadHex(text, i + 2, 0)
         IN  <<r.value>> \o ParseHexLiterals(text, r.next)
    ELSE ParseHexLiterals(text, i + 1)

\* The value of the length constant of text, -1 when there is none.
ParseLen(text) ==
  LET at == {i \in 1..Len(text) : text[i] = "const int sporenet_model_data_len = "}
  IN  IF at = {} THEN -1
      ELSE LET i == CHOOSE j \in at : TRUE
           IN  IF i + 1 <= Len(text) /\ IsDecDigit(text[i + 1])
                 THEN ReadDec(text, i + 1, 0).value
                 ELSE -1

RoundTrips(file, data) ==
  /\ ParseHexLiterals(file.text, 1) = data
  /\ ParseLen(file.text) = Len(data)

----------------------------------------------------------------------------
(* Claims *)

Returned == pc \in {"done", "report_success", "gen_header"}

Unquantized(c) ==
  /\ c.optimizations = {}
  /\ c.representative_dataset = NoDataset
  /\ "TFLITE_BUILTINS_INT8" \notin c.supported_ops
  /\ c.inference_input_type # "int8"
  /\ c.inference_output_type # "int8"

\* C1: for every source format, a request whose first conversion attempt
\* raised has made exactly one more attempt, with the optimizations off, by
\* the time it ends; no request makes more than two attempts.
C1_ExactlyOneRetry ==
  /\ Len(attempts) <= 2
  /\ (pc = "done" /\ Len(attempts) >= 1 /\ ~attempts[1].ok)
       => (Len(attempts) = 2 /\ attempts[2].settings.optimizations = {})

\* C2: once convert_onnx_model has returned or raised, the SavedModel
\* directory at tf_model_path (the output path with '.tflite' replaced by
\* '_tf_model') does not exist.
C2_SavedModelDirRemoved ==
  (args.output_has_tflite /\ (Returned \/ pc = "pt_cleanup"))
    => fs[TfModelPath].kind # "dir"

\* C3: once convert_pytorch_model has exported the ONNX file and then
\* returned or raised, the file at onnx_path does not exist.
C3_OnnxFileRemoved ==
  (args.output_has_tflite /\ Returned /\ caller = "pytorch")
    => fs[OnnxPath].kind # "onnx"

\* C4: the settings in force during the retry carry no quantization at all:
\* no optimization, no representative dataset, no INT8-only ops and no int8
\* inference types.
C4_RetryPlanNone ==
  Len(attempts) >= 2 => Unquantized(attempts[2].settings)

BadRequest == ~args.model_exists \/ args.framework \notin Choices

\* C5: a request whose model path does not exist or whose framework is not
\* one of the choices never reaches a converter: no converter is called, no
\* conversion is attempted, no file or directory is created, success is not
\* printed, and when the run ends its exit code is not 0.
C5_FailsAtDispatch ==
  BadRequest =>
    /\ calls = <<>>
    /\ attempts = <<>>
    /\ converter = NoConverter
    /\ \A p \in Paths : fs[p] = Absent
    /\ ~success_printed
    /\ pc \in {"parse_args", "setup_imports", "check_input", "done"}
    /\ (pc = "done" => exit_code \in {1, 2})

C5_Witness ==
  /\ pc = "done"
  /\ args.framework \in Choices
  /\ ~args.model_exists
  /\ tf = "module"
  /\ error = "InputNotFound"
  /\ exit_code = 1

\* C6: with quantize off, every conversion attempt of every converter runs
\* with unquantized settings, and neither the binary nor the details read
\* back from it declare an int8 element type.
C6_NoQuantizeModeNone ==
  ~args.quantize =>
    /\ \A i \in 1..Len(attempts) : Unquantized(attempts[i].settings)
    /\ tflite_model.input_type # "int8" /\ tflite_model.output_type # "int8"
    /\ details.input_type # "int8" /\ details.output_type # "int8"

C6_Witness ==
  /\ ~args.quantize
  /\ pc = "done" /\ exit_code = 0
  /\ Len(attempts) = 2 /\ ~attempts[1].ok /\ attempts[2].ok
  /\ details.loaded /\ details.input_type = "float32"

\* C7: with quantize on and a concrete declared input shape, the first
\* attempt of every converter runs with the default optimization, int8
\* inference types and a representative dataset of SampleCount samples of
\* the declared shape without its batch dimension.
C7_IntegerPlanFirstAttempt ==
  (args.quantize /\ args.input_shape.status = "ok" /\ Len(attempts) >= 1) =>
    LET s == attempts[1].settings
    IN  /\ s.optimizations = {"DEFAULT"}
        /\ s.representative_dataset =
             [shape |-> Tail(args.input_shape.dims), count |-> SampleCount]
        /\ s.inference_input_type = "int8"
        /\ s.inference_output_type = "int8"

\* C8: the text either emitter writes for a model file, read back, gives the
\* bytes of the file in order, and its length constant is their number.
C8_EmitRoundTrip ==
  /\ fs[HeaderPath].kind = "text" => RoundTrips(fs[HeaderPath], fs["out"].bytes)
  /\ fs["model_cpp"].kind = "text" => RoundTrips(fs["model_cpp"], fs["out"].bytes)

C8_Witness ==
  /\ fs[HeaderPath].kind = "text"
  /\ fs["model_cpp"].kind = "text"
  /\ Len(fs["out"].bytes) > BytesPerLine
  /\ \E i \in 1..Len(fs["out"].bytes) : fs["out"].bytes[i] < 16

\* The formats whose optional toolchain is missing.
Disabled ==
  \/ args.framework = "pytorch" /\ (~env.torch \/ ~env.onnx)
  \/ args.framework = "onnx" /\ ~env.onnx

\* C9: the optional globals are fixed by setup_imports; a missing optional
\* package never fails a request for a format that does not need it; a
\* request for a format that needs it creates no file and does not end with
\* exit code 0.
C9_OptionalDependencies ==
  /\ tf = "module" =>
       /\ torch = (IF env.torch THEN "module" ELSE "None")
       /\ onnx = (IF env.onnx THEN "module" ELSE "None")
  /\ (args.framework \in Choices /\ ~Disabled) => error # "ImportError"
  /\ (Disabled /\ args.output_has_tflite) =>
       /\ \A p \in Paths : fs[p] = Absent
       /\ (pc = "done" => exit_code # 0)

\* C10: success is printed only after the interpreter has loaded the binary
\* and its details were read, and a request whose binary does not load does
\* not end with exit code 0.
C10_SuccessOnlyAfterInspection ==
  /\ success_printed => details.loaded
  /\ (pc = "done" /\ tflite_model # NoBinary /\ ~tflite_model.valid) => exit_code # 0

\* The unrecovered failures a finished request can end in: the model path
\* does not exist, a needed package is not installed, the last conversion
\* attempt raised, or the binary produced does not load.
EndsInFailure ==
  \/ error = "InputNotFound"
  \/ error \in {"ImportError", "TensorFlowMissing"}
  \/ Len(attempts) >= 1 /\ ~attempts[Len(attempts)].ok
  \/ tflite_model # NoBinary /\ ~tflite_model.valid

\* C11: a finished request that ended in an unrecovered failure has a
\* non-zero exit code and has not printed the success report; when the first
\* attempt failed and the retry succeeded, a non-zero exit code comes from a
\* later failure, never from the failure of the first attempt.
C11_FailureExitsNonZero ==
  /\ (pc = "done" /\ EndsInFailure) => (exit_code # 0 /\ ~success_printed)
  /\ (pc = "done" /\ Len(attempts) = 2 /\ attempts[2].ok /\ exit_code # 0)
       => error \in {"WriteError", "InspectError", "HeaderError"}

\* The degraded plan: default optimization and nothing of the integer
\* quantization.
DefaultOptimize(c) ==
  /\ c.optimizations = {"DEFAULT"}
  /\ c.representative_dataset = NoDataset
  /\ "TFLITE_BUILTINS_INT8" \notin c.supported_ops
  /\ c.inference_input_type # "int8"
  /\ c.inference_output_type # "int8"

\* C12: with quantize on and no usable input shape (none exposed, or its
\* access raises while the integer quantization is configured), the first
\* attempt runs with the default optimization only, and the configuration
\* step goes on to the conversion attempt without ending the request.
C12_DegradedPlanNotFailure ==
  /\ [](  (args.quantize /\ args.input_shape.status # "ok" /\ Len(attempts) >= 1)
            => DefaultOptimize(attempts[1].settings))
  /\ [][ (pc = "tf_configure" /\ args.quantize /\ model.input_shape.status # "ok")
            => (pc' = "tf_convert" /\ exit_code' = -1 /\ DefaultOptimize(converter')) ]_vars

C12_Witness ==
  /\ args.quantize
  /\ args.framework = "tensorflow"
  /\ model.loaded /\ model.input_shape.status = "raises"
  /\ Len(attempts) >= 1
  /\ DefaultOptimize(attempts[1].settings)

\* The output write of the converter has completed.
OutputWritten ==
  \/ pc \in {"tf_inspect", "onnx_cleanup", "pt_cleanup", "report_success", "gen_header"}
  \/ pc = "done" /\ exit_code = 0

\* C13: the output path holds a binary file only once a conversion attempt
\* has returned a binary; after the write the output file holds exactly that
\* binary, up to the end of a successful request; a header text exists only
\* after the converter returned and success was printed; a request that
\* ended with a failed conversion has written neither output file nor header.
C13_WriteOrdering ==
  /\ fs["out"].kind = "bin" => tflite_model # NoBinary
  /\ OutputWritten => fs["out"] = BinFile(tflite_model.bytes)
  /\ \A p \in Paths : fs[p].kind = "text" => success_printed
  /\ error = "ConvertError" => \A p \in Paths : fs[p].kind \notin {"bin", "text"}

====
